---- MODULE Spec2Model ----
(***************************************************************************)
(* Model of scripts/phase_4_2_2/reliable_mock.py: a mock vector database   *)
(* served by http.server.HTTPServer with the handler class ReliableMock.   *)
(* HTTPServer is the non-threading socketserver: serve_forever handles one *)
(* request to completion before it accepts the next, so each request is    *)
(* one atomic step of the model.                                           *)
(*                                                                         *)
(* Time is counted in ticks, TicksPerSecond ticks to the second, so that   *)
(* the truncation int(time.time() - start_time) is visible.  time.time()   *)
(* is the wall clock: it normally advances and can be set back.            *)
(***************************************************************************)
EXTENDS Integers, Sequences, FiniteSets, TLC

VARIABLES
    count,       \* ReliableMock.count (class attribute)
    start_time,  \* ReliableMock.start_time (class attribute), in ticks
    clock,       \* what time.time() returns now, in ticks
    running,     \* the process is inside server.serve_forever()
    stdout,      \* the lines printed so far
    req,         \* the request handled last
    resp,        \* what the handler wrote for it
    event,       \* the kind of the last step
    inserted,    \* history: number of vector inserts answered 200
    synthIds,    \* history: the synthesized ids handed out so far
    picked       \* history: one earlier health answer, arbitrarily chosen

vars == <<count, start_time, clock, running, stdout, req, resp, event,
          inserted, synthIds, picked>>

-----------------------------------------------------------------------------
(* Bounds of the model *)

MaxCount == 26

MaxHistoryCount == 3

MaxTime == 4

BootTime == 2

TicksPerSecond == 2

(* if self.count % 25 == 0 *)
ProgressEvery == 25

-----------------------------------------------------------------------------
(* Text *)

Digit == <<"0", "1", "2", "3", "4", "5", "6", "7", "8", "9">>

(* str(n) for n >= 0, as the f-string formats an int *)
RECURSIVE DecStr(_)
DecStr(n) == IF n < 10 THEN Digit[n + 1]
             ELSE DecStr(n \div 10) \o Digit[(n % 10) + 1]

(* needle in hay, on sequences of characters *)
Contains(needle, hay) ==
    \E i \in 0 .. (Len(hay) - Len(needle)) :
        SubSeq(hay, i + 1, i + Len(needle)) = needle

HEALTH == <<"h", "e", "a", "l", "t", "h">>

VECTOR == <<"v", "e", "c", "t", "o", "r">>

(* int(x): truncation toward zero of n/d, d > 0 *)
IntTrunc(n, d) == IF n >= 0 THEN n \div d ELSE -((-n) \div d)

(* format(n/d, ".1f") in tenths: rounding to nearest, ties to even *)
RoundTenths(n, d) ==
    LET q == (10 * n) \div d
        r == (10 * n) % d
    IN  IF 2 * r < d THEN q
        ELSE IF 2 * r > d THEN q + 1
        ELSE IF q % 2 = 0 THEN q ELSE q + 1

-----------------------------------------------------------------------------
(* Requests *)

PathHealth == <<"/", "a", "p", "i", "/">> \o HEALTH

PathVectors == <<"/", "a", "p", "i", "/">> \o VECTOR \o <<"s">>

PathUnknown == <<"/", "u", "n", "k", "n", "o", "w", "n">>

PathBoth == <<"/">> \o VECTOR \o <<"/">> \o HEALTH

Paths == {PathHealth, PathVectors, PathUnknown, PathBoth}

BodyIdAbc == "{\"id\":\"abc\"}"

BodyIdVec2 == "{\"id\":\"vec_2\"}"

BodyNoId == "{\"dim\":\"3\"}"

BodyBadJson == "{bad"

BodyArray == "[1]"

Bodies == {BodyIdAbc, BodyIdVec2, BodyNoId, BodyBadJson, BodyArray}

ContentLength(v) == {<<"Content-Length", v>>}

(* the header and body of a request: no Content-Length, Content-Length 0,  *)
(* a Content-Length that is the length of the body, and one that is no     *)
(* number                                                                  *)
Payloads ==
    {[headers |-> {}, body |-> ""],
     [headers |-> ContentLength("0"), body |-> ""],
     [headers |-> ContentLength("abc"), body |-> BodyIdAbc]}
    \cup {[headers |-> ContentLength(DecStr(Len(b))), body |-> b] : b \in Bodies}

Requests ==
    {[method |-> "GET", path |-> p, headers |-> {}, body |-> ""] : p \in Paths}
    \cup {[method |-> "POST", path |-> p, headers |-> l.headers, body |-> l.body] :
            p \in Paths, l \in Payloads}

NoRequest == [method |-> "", path |-> <<>>, headers |-> {}, body |-> ""]

NoResponse == [status |-> 0, ctype |-> "", body |-> <<>>, raised |-> FALSE]

-----------------------------------------------------------------------------
(* Reading the request *)

(* self.headers.get(name, default), for a header that occurs at most once *)
HeaderGet(headers, name, default) ==
    IF \E h \in headers : h[1] = name
    THEN (CHOOSE h \in headers : h[1] = name)[2]
    ELSE default

MaxLength == 20

(* int(s) of a header value: the number a decimal string denotes; a string *)
(* that denotes none raises ValueError                                     *)
IntRaises(s) == ~ \E n \in 0 .. MaxLength : DecStr(n) = s

IntOf(s) == CHOOSE n \in 0 .. MaxLength : DecStr(n) = s

(* length = int(self.headers.get('Content-Length', 0)) *)
LengthRaises(r) ==
    LET v == HeaderGet(r.headers, "Content-Length", "0") IN IntRaises(v)

Length(r) ==
    LET v == HeaderGet(r.headers, "Content-Length", "0") IN IntOf(v)

(* json.loads on the bodies of the model: a dict as its set of items, and  *)
(* JSONDecodeError as kind "error"                                         *)
json_loads(b) ==
    CASE b = BodyIdAbc  -> [kind |-> "dict", items |-> {<<"id", "abc">>}]
      [] b = BodyIdVec2 -> [kind |-> "dict", items |-> {<<"id", "vec_2">>}]
      [] b = BodyNoId   -> [kind |-> "dict", items |-> {<<"dim", "3">>}]
      [] b = BodyArray  -> [kind |-> "list", items |-> {}]
      [] OTHER          -> [kind |-> "error", items |-> {}]

(* data.get(key, default) *)
DictGet(data, key, default) ==
    IF \E kv \in data.items : kv[1] = key
    THEN (CHOOSE kv \in data.items : kv[1] = key)[2]
    ELSE default

(* f'vec_{self.count}' *)
SynthId(c) == "vec_" \o DecStr(c)

(* lines 30-33 raise: int() on the header, json.loads on the body, or      *)
(* .get on a value that is no dict                                         *)
Raises(r) ==
    \/ LengthRaises(r)
    \/ /\ Length(r) # 0
       /\ json_loads(r.body).kind # "dict"

(* the id synthesized from the count as it was before this request *)
VectorIdBeforeIncrement(r, c) ==
    IF Length(r) # 0
    THEN DictGet(json_loads(r.body), "id", SynthId(c - 1))
    ELSE SynthId(c - 1)

(* the body's id is never looked at *)
VectorIdIgnoresBody(r, c) == SynthId(c)

(* lines 30-35, given that nothing raises; c is self.count when it is read *)
VectorId(r, c) ==
    IF Length(r) # 0
    THEN DictGet(json_loads(r.body), "id", SynthId(c))
    ELSE SynthId(c)

-----------------------------------------------------------------------------
(* Responses *)

NotFound == [status |-> 404, ctype |-> "", body |-> <<>>, raised |-> FALSE]

(* the handler raised before send_response: nothing was written *)
Raised == [status |-> 0, ctype |-> "", body |-> <<>>, raised |-> TRUE]

(* the operands of the subtraction exchanged *)
UptimeReversed(now, st) == IntTrunc(st - now, TicksPerSecond)

(* int(time.time() - self.start_time) *)
Uptime(now, st) == IntTrunc(now - st, TicksPerSecond)

HealthResponse(c, now, st) ==
    [status |-> 200, ctype |-> "application/json",
     body |-> <<[status |-> "healthy", requests |-> c, uptime |-> Uptime(now, st)]>>,
     raised |-> FALSE]

InsertResponse(id) ==
    [status |-> 200, ctype |-> "application/json",
     body |-> <<[id |-> id, status |-> "inserted"]>>,
     raised |-> FALSE]

(* rate = self.count / elapsed if elapsed > 0 else 0, printed with .1f *)
Rate(c, now, st) ==
    IF now - st > 0 THEN RoundTenths(c * TicksPerSecond, now - st) ELSE 0

ProgressLine(c, now, st) ==
    [line |-> "Processed", count |-> c, tenths |-> Rate(c, now, st)]

ShutdownLine(c) == [line |-> "Shutdown", count |-> c]

Banner == [line |-> "RELIABLE Mock Vector DB"]

(* if self.count % 25 == 0: print(...) *)
Progress(out, c, now, st) ==
    IF c % ProgressEvery = 0 THEN Append(out, ProgressLine(c, now, st)) ELSE out

-----------------------------------------------------------------------------
(* Routing *)

(* self.path == '/api/health' instead of containment *)
RouteHealthExact(path) == path = PathHealth

(* 'health' in self.path *)
RouteHealth(path) == Contains(HEALTH, path)

(* 'vector' in self.path *)
RouteVector(path) == Contains(VECTOR, path)

(* self.count += 1: the class attribute is left as it was *)
IncrementLost(c) == c

(* ReliableMock.count += 1 *)
Increment(c) == c + 1

(* the exception leaves serve_forever *)
AfterExceptionPropagates(run) == FALSE

(* An exception of the handler reaches socketserver's handle_error, which  *)
(* reports it and closes the connection; serve_forever goes on.            *)
AfterException(run) == run

-----------------------------------------------------------------------------
(* The server *)

Init ==
    /\ count = 0
    /\ start_time = BootTime
    /\ clock = BootTime
    /\ running = TRUE
    /\ stdout = <<Banner>>
    /\ req = NoRequest
    /\ resp = NoResponse
    /\ event = "start"
    /\ inserted = 0
    /\ synthIds = {}
    /\ picked = {}

(* do_GET counting the request as well *)
do_GET_Counting(r) ==
    /\ running
    /\ r.method = "GET"
    /\ count' = Increment(count)
    /\ resp' = IF RouteHealth(r.path)
               THEN HealthResponse(count', clock, start_time)
               ELSE NotFound
    /\ req' = r
    /\ event' = "request"
    /\ UNCHANGED <<start_time, clock, running, stdout, inserted>>

do_GET(r) ==
    /\ running
    /\ r.method = "GET"
    /\ resp' = IF RouteHealth(r.path)
               THEN HealthResponse(count, clock, start_time)
               ELSE NotFound
    /\ req' = r
    /\ event' = "request"
    /\ UNCHANGED <<count, start_time, clock, running, stdout, inserted>>

(* do_POST with the increment moved after the body is read *)
do_POST_IncrementAfterParse(r, limit) ==
    /\ running
    /\ r.method = "POST"
    /\ IF RouteVector(r.path)
       THEN /\ count < limit
            /\ IF Raises(r)
               THEN /\ resp' = Raised
                    /\ running' = AfterException(running)
                    /\ UNCHANGED <<count, stdout, inserted>>
               ELSE /\ count' = Increment(count)
                    /\ resp' = InsertResponse(VectorId(r, count'))
                    /\ stdout' = Progress(stdout, count', clock, start_time)
                    /\ inserted' = inserted + 1
                    /\ UNCHANGED running
       ELSE /\ resp' = NotFound
            /\ UNCHANGED <<count, running, stdout, inserted>>
    /\ req' = r
    /\ event' = "request"
    /\ UNCHANGED <<start_time, clock>>

do_POST(r, limit) ==
    /\ running
    /\ r.method = "POST"
    /\ IF RouteVector(r.path)
       THEN /\ count < limit
            /\ count' = Increment(count)
            /\ IF Raises(r)
               THEN /\ resp' = Raised
                    /\ running' = AfterException(running)
                    /\ UNCHANGED <<stdout, inserted>>
               ELSE /\ resp' = InsertResponse(VectorId(r, count'))
                    /\ stdout' = Progress(stdout, count', clock, start_time)
                    /\ inserted' = inserted + 1
                    /\ UNCHANGED running
       ELSE /\ resp' = NotFound
            /\ UNCHANGED <<count, running, stdout, inserted>>
    /\ req' = r
    /\ event' = "request"
    /\ UNCHANGED <<start_time, clock>>

(* the wall clock advances *)
Tick ==
    /\ running
    /\ clock < MaxTime
    /\ clock' = clock + 1
    /\ event' = "tick"
    /\ UNCHANGED <<count, start_time, running, stdout, req, resp, inserted>>

(* the wall clock is set back *)
SetBack ==
    /\ running
    /\ clock > 0
    /\ clock' = clock - 1
    /\ event' = "setback"
    /\ UNCHANGED <<count, start_time, running, stdout, req, resp, inserted>>

(* except KeyboardInterrupt: print(Shutdown ...) *)
KeyboardInterrupt ==
    /\ running
    /\ running' = FALSE
    /\ stdout' = Append(stdout, ShutdownLine(count))
    /\ event' = "interrupt"
    /\ UNCHANGED <<count, start_time, clock, req, resp, inserted>>

-----------------------------------------------------------------------------
(* History *)

IsHealthAnswer(q, a) == q.method = "GET" /\ a.status = 200

IsSynthesized(q, a) ==
    /\ q.method = "POST"
    /\ a.status = 200
    /\ \/ Length(q) = 0
       \/ ~ \E kv \in json_loads(q.body).items : kv[1] = "id"

NoHistory == UNCHANGED <<synthIds, picked>>

(* keep the earlier pick, or pick the health answer just given *)
RecordHealth ==
    /\ picked' \in {picked}
                  \cup (IF event' = "request" /\ IsHealthAnswer(req', resp')
                        THEN {{[requests |-> resp'.body[1].requests,
                                uptime |-> resp'.body[1].uptime,
                                at |-> clock']}}
                        ELSE {})
    /\ UNCHANGED synthIds

RecordInsert ==
    /\ synthIds' = IF IsSynthesized(req', resp')
                   THEN synthIds \cup {resp'.body[1].id}
                   ELSE synthIds
    /\ UNCHANGED picked

Next ==
    \/ \E r \in Requests : do_GET(r) /\ NoHistory
    \/ \E r \in Requests : do_POST(r, MaxCount) /\ NoHistory
    \/ Tick /\ NoHistory
    \/ SetBack /\ NoHistory
    \/ KeyboardInterrupt /\ NoHistory

Spec == Init /\ [][Next]_vars

NextHistory ==
    \/ \E r \in Requests : do_GET(r) /\ RecordHealth
    \/ \E r \in Requests : do_POST(r, MaxHistoryCount) /\ RecordInsert
    \/ Tick /\ NoHistory
    \/ SetBack /\ NoHistory
    \/ KeyboardInterrupt /\ NoHistory

SpecHistory == Init /\ [][NextHistory]_vars

-----------------------------------------------------------------------------
(* Vocabulary of the properties *)

(* the Content-Length header states the length of the body, which is not   *)
(* empty (an HTTP/1.0 request with a body)                                 *)
HasBody(q) ==
    /\ q.body # ""
    /\ q.headers = ContentLength(DecStr(Len(q.body)))

IsVectorPost(q) == q.method = "POST" /\ Contains(VECTOR, q.path)

IsHealthGet(q) == q.method = "GET" /\ Contains(HEALTH, q.path)

(* no id is supplied: Content-Length absent or zero, or a JSON object      *)
(* without an "id" key                                                     *)
SuppliesNoId(q) ==
    \/ q.headers = {}
    \/ q.headers = ContentLength("0")
    \/ HasBody(q) /\ q.body = BodyNoId

(* the ids a JSON object body carries *)
SuppliedIds(q) ==
    IF HasBody(q) /\ q.body = BodyIdAbc THEN {"abc"}
    ELSE IF HasBody(q) /\ q.body = BodyIdVec2 THEN {"vec_2"}
    ELSE {}

(* a body that is not JSON, under a nonzero Content-Length *)
MalformedJson(q) == HasBody(q) /\ q.body = BodyBadJson

(* reading the request fails: the body is not JSON, is JSON but no object, *)
(* or the Content-Length is no number                                      *)
FailsToParse(q) ==
    \/ MalformedJson(q)
    \/ HasBody(q) /\ q.body = BodyArray
    \/ q.headers = ContentLength("abc")

EmptyNotFound == [status |-> 404, ctype |-> "", body |-> <<>>, raised |-> FALSE]

IsHealthJson(a) ==
    /\ a.status = 200
    /\ a.ctype = "application/json"
    /\ Len(a.body) = 1
    /\ DOMAIN a.body[1] = {"status", "requests", "uptime"}
    /\ a.body[1].status = "healthy"

IsInsertJson(a) ==
    /\ a.status = 200
    /\ a.ctype = "application/json"
    /\ Len(a.body) = 1
    /\ DOMAIN a.body[1] = {"id", "status"}
    /\ a.body[1].status = "inserted"

ProgressLines(out) == SelectSeq(out, LAMBDA l : l.line = "Processed")

(* the number n of a synthesized id vec_<n> *)
SuffixOf(id) == CHOOSE n \in 0 .. MaxLength : id = "vec_" \o DecStr(n)

-----------------------------------------------------------------------------
(* C1: a health GET issued immediately after the Nth vector insert that    *)
(* was answered 200 reports requests = N, whatever requests (malformed     *)
(* vector POSTs included) came before.                                     *)
C1_RequestsEqualsSuccessfulInserts ==
    [][(/\ event = "request"
        /\ IsVectorPost(req)
        /\ resp.status = 200
        /\ event' = "request"
        /\ IsHealthGet(req'))
       => resp'.body[1].requests = inserted]_vars

(* C2: a vector POST with a malformed JSON body and nonzero Content-Length *)
(* leaves the server running, and leaves it in the state a well-formed     *)
(* insert would have left it in (the counter one higher, start_time        *)
(* untouched), which is all that later answers depend on.                  *)
C2_MalformedBodyDoesNotStopServer ==
    [][(/\ event' = "request"
        /\ IsVectorPost(req')
        /\ MalformedJson(req'))
       => /\ running'
          /\ count' = count + 1
          /\ start_time' = start_time]_vars

C2_Witness ==
    /\ running
    /\ event = "request"
    /\ IsVectorPost(req)
    /\ MalformedJson(req)
    /\ resp.raised
    /\ count >= 2

(* C3: a progress line is printed when, and only when, the number of       *)
(* vector inserts answered 200 reaches a multiple of 25, and the line      *)
(* shows that number.                                                      *)
C3_OneLinePer25SuccessfulInserts ==
    [][event' = "request"
       => /\ (stdout' # stdout)
                <=> (inserted' = inserted + 1 /\ inserted' % ProgressEvery = 0)
          /\ stdout' # stdout
                => stdout'[Len(stdout')].count = inserted']_vars

(* C4: a vector insert that supplies no id, issued with the counter at k,  *)
(* is answered 200 with id vec_<k+1> and status inserted.                  *)
C4_SynthesizedIdUsesIncrementedCount ==
    [][(/\ event' = "request"
        /\ IsVectorPost(req')
        /\ SuppliesNoId(req'))
       => /\ IsInsertJson(resp')
          /\ resp'.body[1].id = "vec_" \o DecStr(count + 1)]_vars

C4_Witness ==
    /\ event = "request"
    /\ IsVectorPost(req)
    /\ req.body = BodyNoId
    /\ SuppliesNoId(req)
    /\ resp.status = 200
    /\ resp.body[1].id = "vec_12"
    /\ count > inserted

(* C5: a vector insert whose JSON object body carries an id is answered    *)
(* 200 with exactly that id and status inserted, whatever the counter.     *)
C5_SuppliedIdIsReturned ==
    [][(/\ event' = "request"
        /\ IsVectorPost(req')
        /\ SuppliedIds(req') # {})
       => /\ IsInsertJson(resp')
          /\ resp'.body[1].id \in SuppliedIds(req')]_vars

C5_Witness ==
    /\ event = "request"
    /\ IsVectorPost(req)
    /\ SuppliedIds(req) = {"vec_2"}
    /\ resp.status = 200
    /\ resp.body[1].id = "vec_2"
    /\ count = 7

(* C6 as stated: of any two health GETs the later reports requests and     *)
(* uptime at least those of the earlier.                                   *)
C6_RequestsAndUptimeNeverDecrease ==
    [][(/\ event' = "request"
        /\ IsHealthGet(req'))
       => \A p \in picked :
            /\ resp'.body[1].requests >= p.requests
            /\ resp'.body[1].uptime >= p.uptime]_vars

(* C6 amended: of any two health GETs the later reports requests at least  *)
(* those of the earlier, and an uptime at least that of the earlier when   *)
(* the wall clock at the later is not behind the wall clock at the         *)
(* earlier.                                                                *)
C6_MonotoneAtIncreasingWallClock ==
    [][(/\ event' = "request"
        /\ IsHealthGet(req'))
       => \A p \in picked :
            /\ resp'.body[1].requests >= p.requests
            /\ clock' >= p.at => resp'.body[1].uptime >= p.uptime]_vars

C6_Witness ==
    /\ event = "request"
    /\ IsHealthGet(req)
    /\ \E p \in picked :
            /\ resp.body[1].requests > p.requests
            /\ resp.body[1].uptime > p.uptime
            /\ clock > p.at

(* C7: a GET is answered 200 with the health JSON iff its path contains    *)
(* "health"; a POST goes to the vector insert iff its path contains        *)
(* "vector"; every other GET or POST is answered 404 with an empty body.   *)
C7_RoutingBySubstring ==
    event = "request" =>
        /\ req.method = "GET" =>
              /\ IsHealthJson(resp) <=> Contains(HEALTH, req.path)
              /\ ~ Contains(HEALTH, req.path) => resp = EmptyNotFound
        /\ req.method = "POST" =>
              /\ (IsInsertJson(resp) \/ resp.raised) <=> Contains(VECTOR, req.path)
              /\ ~ FailsToParse(req) =>
                    (IsInsertJson(resp) <=> Contains(VECTOR, req.path))
              /\ ~ Contains(VECTOR, req.path) => resp = EmptyNotFound

C7_Witness ==
    /\ event = "request"
    /\ req.method = "GET"
    /\ req.path = PathBoth
    /\ IsHealthJson(resp)
    /\ count > 0

(* C8: a health GET, a GET answered 404 and a POST answered 404 leave      *)
(* count and start_time unchanged and print nothing.                       *)
C8_OnlyInsertWritesState ==
    [][(/\ event' = "request"
        /\ (req'.method = "GET" \/ resp'.status = 404))
       => /\ count' = count
          /\ start_time' = start_time
          /\ stdout' = stdout]_vars

C8_Witness ==
    /\ event = "request"
    /\ req.method = "POST"
    /\ resp.status = 404
    /\ count = ProgressEvery
    /\ Len(ProgressLines(stdout)) = 1

(* C9: every POST routed to the vector insert increments count by exactly  *)
(* 1, whether the body is absent, parses, or fails to parse; when it fails *)
(* the increment is kept, no 200 is written and nothing is printed.        *)
C9_IncrementOncePerVectorPost ==
    [][(/\ event' = "request"
        /\ IsVectorPost(req'))
       => /\ count' = count + 1
          /\ FailsToParse(req') =>
                /\ resp'.status # 200
                /\ resp'.body = <<>>
                /\ stdout' = stdout
          /\ ~ FailsToParse(req') => resp'.status = 200]_vars

C9_Witness ==
    /\ event = "request"
    /\ IsVectorPost(req)
    /\ MalformedJson(req)
    /\ resp.raised
    /\ count = ProgressEvery
    /\ ProgressLines(stdout) = <<>>

(* C10: a synthesized id differs from every synthesized id handed out      *)
(* before it, and its number is greater than theirs.                       *)
C10_SynthesizedIdsNeverReused ==
    [][(/\ event' = "request"
        /\ IsSynthesized(req', resp'))
       => /\ resp'.body[1].id \notin synthIds
          /\ \A old \in synthIds :
                SuffixOf(resp'.body[1].id) > SuffixOf(old)]_vars

C10_Witness ==
    /\ event = "request"
    /\ IsSynthesized(req, resp)
    /\ synthIds = {"vec_1", "vec_3"}
    /\ resp.body[1].id = "vec_3"

====
